---- MODULE Spec2Model ----
(***************************************************************************)
(* The integrations Manager of pkg/integrations/manager.go: ApplyConfig    *)
(* (the reconciler), integrationProcess.Run (the per-worker run loop),     *)
(* Manager.instanceBackoff, the handler cache of Manager.WireAPI and       *)
(* Manager.Stop, as one state machine.  Every lock, the wait group and the *)
(* goroutines' positions are state; ApplyConfig is cut at the points where *)
(* other goroutines can observe it.  The goroutines are composed in six    *)
(* specifications: Spec (ApplyConfig with every configuration, and the     *)
(* cancellation of Stop), SpecRun (ApplyConfig, the run loops of two       *)
(* workers and Stop), SpecLoop (the same with one worker), SpecAPI         *)
(* (ApplyConfig and the scrape requests), SpecShared (the same with two    *)
(* callers of ApplyConfig) and SpecAll (two callers, the run loops, the    *)
(* requests and Stop, with the fairness the scheduler and the locks give). *)
(* The run loops share with ApplyConfig only m.cfgMut and each process's   *)
(* cancellation, the requests only m.integrationsMut and the registry they *)
(* read under it.                                                          *)
(***************************************************************************)
EXTENDS Integers, FiniteSets, Sequences, TLC

\* ------------------------------------------------------------------------
\* Bounds of the model.
\* ------------------------------------------------------------------------

\* Processes ApplyConfig may create in one behaviour.
MaxProcs == 2

\* Non-canceled errors the workers' Run may return in one behaviour, all
\* workers together.
MaxFails == 2

\* MetricsHandler calls that may be made on one process.
MaxHandlerCalls == 2

\* ------------------------------------------------------------------------
\* Configuration values.
\* ------------------------------------------------------------------------

\* Integration names (Config.Name()).
Names == {"a", "b"}

\* One integration's Config: CommonConfig().Enabled and
\* CommonConfig().ScrapeIntegration (a *bool: "nil", "true" or "false").
WorkerConfigs ==
  { [enabled |-> TRUE,  scrape |-> "nil"],
    [enabled |-> TRUE,  scrape |-> "true"],
    [enabled |-> FALSE, scrape |-> "false"] }

\* Configs: cfg.Integrations, one Config per name at most.
IntegrationSets == UNION { [S -> WorkerConfigs] : S \in SUBSET Names }

\* ManagerConfig: ScrapeIntegrations and Integrations.
ManagerConfigs == [scrape : BOOLEAN, ints : IntegrationSets]

\* The map with no key.
EmptyMap == [n \in {} |-> 0]

\* The zero ManagerConfig a Manager holds before its first ApplyConfig.
ZeroConfig == [scrape |-> FALSE, ints |-> EmptyMap]

\* delete(m, k)
Delete(m, k) == [n \in (DOMAIN m) \ {k} |-> m[n]]

\* m[k] = v
Put(m, k, v) == [n \in (DOMAIN m) \cup {k} |-> IF n = k THEN v ELSE m[n]]

\* util.CompareYAML: structural equality of two configuration values.
CompareYAML(a, b) == a = b

\* integrationKey: "integration/" + name.  A key is the pair of the prefix
\* and the name, so that no name is a key.
integrationKey(name) == <<"integration", name>>

\* The keys of all names.
Keys == { integrationKey(n) : n \in Names }

\* ------------------------------------------------------------------------
\* State.
\* ------------------------------------------------------------------------

VARIABLES
  cfg,              \* m.cfg
  cfgErr,           \* the call that stored m.cfg returned an error
  inputs,           \* the configurations the callers submit
  callers,          \* the goroutines that call ApplyConfig
  integrations,     \* m.integrations: key -> the registered process: its
                    \* identity (proc) and its cfg field
  ctxDone,          \* m.ctx is canceled
  wg,               \* m.wg's counter
  cfgMut,           \* m.cfgMut: [w: held for writing, r: readers]
  integrationsMut,  \* m.integrationsMut, likewise
  procs,            \* every integrationProcess ever created, by id: its
                    \* key, its cancellation and its goroutine
  im,               \* keys the instance manager holds a config for
  local,            \* the ApplyConfig caller's locals and position
  call,             \* record of the ApplyConfig call in progress or last made
  handlerCache,     \* WireAPI's handlerCache: key -> [handler, process]
  req,              \* the scrape request's position and locals
  served,           \* key -> the response the last request for the key got
  stopPc,           \* Stop's position
  stopSeen          \* processes launched by calls completed when Stop began

vars == <<inputs, callers, cfg, cfgErr, integrations, ctxDone, wg, cfgMut, integrationsMut, procs, im,
          local, call, handlerCache, req, served, stopPc, stopSeen>>

\* Ids of the processes created so far.
Pids == DOMAIN procs

\* The lock is free for a writer.
CanLock(mut) == ~mut.w /\ mut.r = 0

\* An RLock that does not wait for the writer.
CanRLockAlways(mut) == TRUE

\* The lock is free for a reader.
CanRLock(mut) == ~mut.w

\* p.ctx.Done() is closed: p.stop was called or the parent m.ctx is canceled.
Canceled(p) == procs[p].stopped \/ ctxDone

\* The goroutines that may call ApplyConfig; a specification has the ones of
\* callers make calls.
Callers == {"c1", "c2"}

\* The caller's locals outside a call.
IdleLocal == [pc |-> "idle", arg |-> ZeroConfig, rest |-> {}, name |-> "",
              derived |-> {}, failed |-> FALSE]

\* The call record outside a call: what the call in progress has done so far
\* is recorded up to its return.
NoCall ==
  [arg |-> ZeroConfig, preCfg |-> ZeroConfig, pre |-> EmptyMap, preIm |-> {},
   afterStop |-> FALSE, short |-> FALSE, result |-> "none",
   deleted |-> {}, applied |-> {}, rejected |-> {}, invalid |-> {},
   unbuilt |-> {}, stopped |-> {}, started |-> {}]

\* A new integrationProcess (lines 240-250), its goroutine not yet scheduled.
NewProcess(key) ==
  [key |-> key, stopped |-> FALSE, pc |-> "launched",
   runs |-> 0, fails |-> 0, backoffs |-> 0, last |-> "none", handlers |-> 0]

\* The request's locals outside a request.
IdleReq == [pc |-> "idle", name |-> "", code |-> 0, handler |-> <<0, 0>>,
            called |-> FALSE, proc |-> 0]

\* What the initial states share: the Manager NewManager has built
\* (lines 161-173), before its first ApplyConfig.
Fresh ==
  /\ cfg = ZeroConfig
  /\ cfgErr = FALSE
  /\ integrations = EmptyMap
  /\ ctxDone = FALSE
  /\ wg = 0
  /\ cfgMut = [w |-> FALSE, r |-> 0]
  /\ integrationsMut = [w |-> FALSE, r |-> 0]
  /\ procs = EmptyMap
  /\ im = {}
  /\ local = [c \in Callers |-> IdleLocal]
  /\ call = NoCall
  /\ handlerCache = EmptyMap
  /\ req = IdleReq
  /\ served = EmptyMap
  /\ stopPc = "idle"
  /\ stopSeen = {}

Init == inputs = ManagerConfigs /\ callers = {"c1"} /\ Fresh

\* ------------------------------------------------------------------------
\* Manager.ApplyConfig (lines 188-310).
\* ------------------------------------------------------------------------

\* Line 197 without the short circuit.
ShortCircuitNever(stored, new) == FALSE

\* Line 197: the new configuration equals the stored one.
ShortCircuit(stored, new) == CompareYAML(stored, new)

\* Line 219 comparing the process, not its cfg field, with the Config.
EntryComparesProcess(pcfg, ic) == CompareYAML([cfg |-> pcfg], ic)

\* Line 219: the registered process was built from this very Config.
EntryUnchanged(pcfg, ic) == CompareYAML(pcfg, ic)

\* Lines 258-264: some entry of the configuration has this key.
FoundConfig(key, new) == \E n \in DOMAIN new.ints : integrationKey(n) = key

\* Lines 278-281 without the override of lines 279-281.
ShouldCollectGlobal(pcfg, new) == new.scrape

\* Lines 278-281: the process's own override, else the global flag of the
\* configuration being applied.
ShouldCollect(pcfg, new) ==
  IF pcfg.scrape /= "nil" THEN pcfg.scrape = "true" ELSE new.scrape

\* Entries of a configuration for which ApplyConfig would build a process.
NeedsNew(new) ==
  { n \in DOMAIN new.ints :
      \/ integrationKey(n) \notin DOMAIN integrations
      \/ ~CompareYAML(integrations[integrationKey(n)].cfg, new.ints[n]) }

\* A p.stop() that cancels nothing.
StopNothing(ps, p) == ps

\* p.stop(): the cancel function of the process's context (lines 239, 246).
StopProcess(ps, p) == [ps EXCEPT ![p].stopped = TRUE]

\* Line 235 as a break: a failed construction ends the loop over the entries.
RemainingNoneOnFailure(rest, n, ok) == IF ok THEN rest \ {n} ELSE {}

\* Lines 235 and 253: the entries the loop of lines 210-253 still has to
\* visit after entry n; a failed construction goes on to the next entry.
Remaining(rest, n, ok) == rest \ {n}

\* A DeleteConfig that deletes nothing.
DeleteConfigNothing(held, key) == held

\* m.im.DeleteConfig(key) (lines 234, 269, 300), which is taken to succeed:
\* the instance manager holds no config for the key afterwards.
DeleteConfig(held, key) == held \ {key}

\* Line 304 as a store made only by a call without failures.
StoredUnlessFailed(stored, new, failed) == IF failed THEN stored ELSE new

\* Line 304: m.cfg = cfg, whether or not a step of the call failed.
Stored(stored, new, failed) == new

\* Lines 201-206 without the test.
ManagerStoppedNever(done) == FALSE

\* Lines 201-206: m.ctx.Done() is closed.
ManagerStopped(done) == done

\* Lines 191-192: m.cfgMut.Lock().  The call is made with any configuration
\* that leaves room for the processes it may create.
ApplyConfigLock(c, new) ==
  /\ local[c].pc = "idle"
  /\ c \in callers
  /\ new \in inputs
  /\ CanLock(cfgMut)
  /\ Cardinality(Pids) + Cardinality(NeedsNew(new)) <= MaxProcs
  /\ cfgMut' = [cfgMut EXCEPT !.w = TRUE]
  /\ local' = [local EXCEPT ![c] = [IdleLocal EXCEPT !.pc = "lockInts", !.arg = new]]
  /\ call' = [NoCall EXCEPT !.arg = new, !.preCfg = cfg, !.pre = integrations,
                            !.preIm = im, !.afterStop = ctxDone, !.result = "pending"]
  /\ UNCHANGED <<inputs, callers, cfg, cfgErr, integrations, ctxDone, wg, integrationsMut, procs, im,
                 handlerCache, req, served, stopPc, stopSeen>>

\* Lines 194-206: m.integrationsMut.Lock(), the equality short circuit and
\* the check of m.ctx.Done().
ApplyConfigCheck(c) ==
  /\ local[c].pc = "lockInts"
  /\ CanLock(integrationsMut)
  /\ integrationsMut' = [integrationsMut EXCEPT !.w = TRUE]
  /\ IF ShortCircuit(cfg, local[c].arg)
       THEN /\ local' = [local EXCEPT ![c].pc = "return"]
            /\ call' = [call EXCEPT !.short = TRUE, !.result = "nil"]
       ELSE IF ManagerStopped(ctxDone)
         THEN /\ local' = [local EXCEPT ![c].pc = "return"]
              /\ call' = [call EXCEPT !.result = "stopped"]
         ELSE /\ local' = [local EXCEPT ![c].pc = "run",
                                        ![c].rest = DOMAIN local[c].arg.ints]
              /\ call' = call
  /\ UNCHANGED <<inputs, callers, cfg, cfgErr, integrations, ctxDone, wg, cfgMut, procs, im,
                 handlerCache, req, served, stopPc, stopSeen>>

\* Lines 210-224: one entry of cfg.Integrations: an unchanged process is left
\* alone, a changed one is stopped and removed before its successor is built.
ApplyConfigEntry(c, n) ==
  /\ local[c].pc = "run"
  /\ n \in local[c].rest
  /\ LET key == integrationKey(n)
         ic  == local[c].arg.ints[n]
     IN IF key \in DOMAIN integrations
          THEN LET p == integrations[key].proc
               IN IF EntryUnchanged(integrations[key].cfg, ic)
                    THEN /\ local' = [local EXCEPT ![c].rest = @ \ {n}]
                         /\ UNCHANGED <<procs, integrations, call>>
                    ELSE /\ procs' = StopProcess(procs, p)
                         /\ integrations' = Delete(integrations, key)
                         /\ call' = [call EXCEPT !.stopped = @ \cup {p}]
                         /\ local' = [local EXCEPT ![c].pc = "new", ![c].name = n]
          ELSE /\ local' = [local EXCEPT ![c].pc = "new", ![c].name = n]
               /\ UNCHANGED <<procs, integrations, call>>
  /\ UNCHANGED <<inputs, callers, cfg, cfgErr, ctxDone, wg, cfgMut, integrationsMut, im,
                 handlerCache, req, served, stopPc, stopSeen>>

\* Lines 226-252: ic.NewIntegration fails (the key's instance config is
\* deleted) or succeeds (the process is created, its goroutine launched and
\* the process registered).
ApplyConfigNew(c, ok) ==
  /\ local[c].pc = "new"
  /\ LET n   == local[c].name
         key == integrationKey(n)
         id  == Cardinality(Pids) + 1
     IN /\ IF ok
             THEN /\ procs' = Put(procs, id, NewProcess(key))
                  /\ integrations' =
                       Put(integrations, key,
                           [proc |-> id, cfg |-> local[c].arg.ints[n]])
                  /\ call' = [call EXCEPT !.started = @ \cup {id}]
                  /\ local' = [local EXCEPT ![c].pc = "run",
                                            ![c].rest = Remaining(@, n, TRUE)]
                  /\ im' = im
             ELSE /\ im' = DeleteConfig(im, key)
                  /\ call' = [call EXCEPT !.deleted = @ \cup {key},
                                          !.unbuilt = @ \cup {key}]
                  /\ local' = [local EXCEPT ![c].pc = "run",
                                            ![c].rest = Remaining(@, n, FALSE),
                                            ![c].failed = TRUE]
                  /\ UNCHANGED <<procs, integrations>>
  /\ UNCHANGED <<inputs, callers, cfg, cfgErr, ctxDone, wg, cfgMut, integrationsMut,
                 handlerCache, req, served, stopPc, stopSeen>>

\* Registered keys the sweep of lines 257-272 removes.
SweepKeys(new) == { k \in DOMAIN integrations : ~FoundConfig(k, new) }

\* Lines 257-272: a registered key with no entry in the configuration: its
\* instance config is deleted, its process stopped and removed.
ApplyConfigSweep(c, key) ==
  /\ local[c].pc = "run"
  /\ local[c].rest = {}
  /\ key \in SweepKeys(local[c].arg)
  /\ im' = DeleteConfig(im, key)
  /\ procs' = StopProcess(procs, integrations[key].proc)
  /\ integrations' = Delete(integrations, key)
  /\ call' = [call EXCEPT !.deleted = @ \cup {key},
                          !.stopped = @ \cup {integrations[key].proc}]
  /\ UNCHANGED <<inputs, callers, cfg, cfgErr, ctxDone, wg, cfgMut, integrationsMut, local,
                 handlerCache, req, served, stopPc, stopSeen>>

\* Lines 277-302: one registered process of the re-apply loop: validate and
\* apply its instance config when it is to be scraped, delete it otherwise.
ApplyConfigRederive(c, key, valid, accepted) ==
  /\ local[c].pc = "run"
  /\ local[c].rest = {}
  /\ SweepKeys(local[c].arg) = {}
  /\ key \in (DOMAIN integrations) \ local[c].derived
  /\ LET pcfg == integrations[key].cfg
     IN IF ShouldCollect(pcfg, local[c].arg)
          THEN IF ~valid
                 THEN /\ call' = [call EXCEPT !.invalid = @ \cup {key}]
                      /\ local' = [local EXCEPT ![c].derived = @ \cup {key},
                                                ![c].failed = TRUE]
                      /\ im' = im
                 ELSE IF ~accepted
                   THEN /\ call' = [call EXCEPT !.applied = @ \cup {key},
                                                !.rejected = @ \cup {key}]
                        /\ local' = [local EXCEPT ![c].derived = @ \cup {key},
                                                  ![c].failed = TRUE]
                        /\ im' = im
                   ELSE /\ call' = [call EXCEPT !.applied = @ \cup {key}]
                        /\ local' = [local EXCEPT ![c].derived = @ \cup {key}]
                        /\ im' = im \cup {key}
          ELSE /\ call' = [call EXCEPT !.deleted = @ \cup {key}]
               /\ local' = [local EXCEPT ![c].derived = @ \cup {key}]
               /\ im' = DeleteConfig(im, key)
  /\ UNCHANGED <<inputs, callers, cfg, cfgErr, integrations, ctxDone, wg, cfgMut, integrationsMut, procs,
                 handlerCache, req, served, stopPc, stopSeen>>

\* Lines 304-309: m.cfg = cfg and the result.
ApplyConfigCommit(c) ==
  /\ local[c].pc = "run"
  /\ local[c].rest = {}
  /\ SweepKeys(local[c].arg) = {}
  /\ (DOMAIN integrations) \subseteq local[c].derived
  /\ cfg' = Stored(cfg, local[c].arg, local[c].failed)
  /\ cfgErr' = local[c].failed
  /\ call' = [call EXCEPT !.result = IF local[c].failed THEN "failed" ELSE "nil"]
  /\ local' = [local EXCEPT ![c].pc = "return"]
  /\ UNCHANGED <<inputs, callers, integrations, ctxDone, wg, cfgMut, integrationsMut, procs, im,
                 handlerCache, req, served, stopPc, stopSeen>>

\* Lines 192, 195 without the defer: a return leaves the lock held.
UnlockForgotten(mut) == mut

\* Lines 192, 195: the deferred Unlock of a lock held for writing.
Unlock(mut) == [mut EXCEPT !.w = FALSE]

\* Lines 192, 195: the deferred unlocks; the call returns.
ApplyConfigReturn(c) ==
  /\ local[c].pc = "return"
  /\ integrationsMut' = Unlock(integrationsMut)
  /\ cfgMut' = Unlock(cfgMut)
  /\ local' = [local EXCEPT ![c] = IdleLocal]
  /\ call' = NoCall
  /\ UNCHANGED <<inputs, callers, cfg, cfgErr, integrations, ctxDone, wg, procs, im,
                 handlerCache, req, served, stopPc, stopSeen>>

\* ------------------------------------------------------------------------
\* integrationProcess.Run (lines 325-345) and Manager.instanceBackoff
\* (lines 347-354).
\* ------------------------------------------------------------------------

\* What one invocation of p.i.Run can end with: a nil error, context.Canceled,
\* any other error, or a panic.
RunOutcomes == {"nil", "canceled", "error", "panic"}

\* The count of the errors other than context.Canceled a worker has returned.
Failures(n, err) == IF err = "error" THEN n + 1 ELSE n

\* Line 338 without the test for context.Canceled.
ShouldRestartOnCanceled(err) == err /= "nil"

\* Line 338: the error that makes the loop wait and run the worker again.
ShouldRestart(err) == err /= "nil" /\ err /= "canceled"

\* Line 334 as a p.wg.Done() at the end of Run that is not deferred: a panic
\* skips it.
wgDoneUnlessPanic(n, err) == IF err = "panic" THEN n ELSE n - 1

\* Line 334: the deferred p.wg.Done() runs however Run is left, a panic
\* included (the recover function of lines 326-331 runs after it).
wgDone(n, err) == n - 1

RECURSIVE SumFails(_)
\* The errors returned so far by the workers of a set of processes.
SumFails(ps) ==
  IF ps = {} THEN 0
  ELSE LET p == CHOOSE q \in ps : TRUE
       IN procs[p].fails + SumFails(ps \ {p})

\* Lines 333-337: the goroutine gets to run: p.wg.Add(1), then the first
\* invocation of p.i.Run.
RunStart(p) ==
  /\ procs[p].pc = "launched"
  /\ wg' = wg + 1
  /\ procs' = [procs EXCEPT ![p].pc = "running", ![p].runs = @ + 1]
  /\ UNCHANGED <<inputs, callers, cfg, cfgErr, integrations, ctxDone, cfgMut, integrationsMut, im,
                 local, call, handlerCache, req, served, stopPc, stopSeen>>

\* Lines 337-344 and the deferred calls of lines 326-334: p.i.Run ends.  A
\* worker returns context.Canceled only once its context is canceled.  An
\* error to restart on calls p.wait; anything else, and a panic, leaves the
\* loop, and the deferred p.wg.Done() runs.
RunReturn(p, err) ==
  /\ procs[p].pc = "running"
  /\ err = "canceled" => Canceled(p)
  /\ err = "error" => SumFails(Pids) < MaxFails
  /\ IF err /= "panic" /\ ShouldRestart(err)
       THEN /\ procs' = [procs EXCEPT ![p].pc = "backoff", ![p].last = err,
                                      ![p].fails = Failures(@, err),
                                      ![p].backoffs = @ + 1]
            /\ wg' = wg
       ELSE /\ procs' = [procs EXCEPT ![p].pc = "done", ![p].last = err,
                                      ![p].fails = Failures(@, err)]
            /\ wg' = wgDone(wg, err)
  /\ UNCHANGED <<inputs, callers, cfg, cfgErr, integrations, ctxDone, cfgMut, integrationsMut, im,
                 local, call, handlerCache, req, served, stopPc, stopSeen>>

\* Lines 348-352: instanceBackoff takes m.cfgMut.RLock() and starts to sleep.
instanceBackoffLock(p) ==
  /\ procs[p].pc = "backoff"
  /\ CanRLock(cfgMut)
  /\ cfgMut' = [cfgMut EXCEPT !.r = @ + 1]
  /\ procs' = [procs EXCEPT ![p].pc = "sleep"]
  /\ UNCHANGED <<inputs, callers, cfg, cfgErr, integrations, ctxDone, wg, integrationsMut, im,
                 local, call, handlerCache, req, served, stopPc, stopSeen>>

\* Lines 353-354 and 337: the sleep ends, the read lock is released and the
\* loop invokes p.i.Run again.
instanceBackoffDone(p) ==
  /\ procs[p].pc = "sleep"
  /\ cfgMut' = [cfgMut EXCEPT !.r = @ - 1]
  /\ procs' = [procs EXCEPT ![p].pc = "running", ![p].runs = @ + 1]
  /\ UNCHANGED <<inputs, callers, cfg, cfgErr, integrations, ctxDone, wg, integrationsMut, im,
                 local, call, handlerCache, req, served, stopPc, stopSeen>>

\* ------------------------------------------------------------------------
\* Manager.WireAPI (lines 428-479): the route /integrations/{name}/metrics.
\* ------------------------------------------------------------------------

\* Lines 453-454 without the comparison of the process.
CacheHitByKey(key, p) == key \in DOMAIN handlerCache

\* Lines 453-454: the cache holds a handler made by this very process.
CacheHit(key, p) ==
  key \in DOMAIN handlerCache /\ handlerCache[key].process = p

\* Line 448 left out.
EvictNothing(cache, key) == cache

\* Line 448: the cache entry of a key that is not registered is dropped.
EvictMissing(cache, key) == Delete(cache, key)

\* Lines 472-475: a request arrives and takes m.integrationsMut.RLock().
RequestLock(n) ==
  /\ req.pc = "idle"
  /\ CanRLock(integrationsMut)
  /\ \A p \in Pids : procs[p].handlers < MaxHandlerCalls
  /\ integrationsMut' = [integrationsMut EXCEPT !.r = @ + 1]
  /\ req' = [IdleReq EXCEPT !.pc = "load", !.name = n]
  /\ UNCHANGED <<inputs, callers, cfg, cfgErr, integrations, ctxDone, wg, cfgMut, procs, im,
                 local, call, handlerCache, served, stopPc, stopSeen>>

\* Lines 441-469: loadHandler, one critical section of handlerMut.  The
\* handler p.i.MetricsHandler returns on its k-th call on process p is <<p, k>>.
loadHandler(ok) ==
  /\ req.pc = "load"
  /\ LET key == integrationKey(req.name)
     IN IF key \notin DOMAIN integrations
          THEN /\ handlerCache' = EvictMissing(handlerCache, key)
               /\ req' = [req EXCEPT !.pc = "serve", !.code = 404]
               /\ procs' = procs
          ELSE LET p == integrations[key].proc
               IN IF CacheHit(key, p)
                    THEN /\ req' = [req EXCEPT !.pc = "serve", !.code = 200, !.proc = p,
                                               !.handler = handlerCache[key].handler]
                         /\ UNCHANGED <<handlerCache, procs>>
                    ELSE /\ procs' = [procs EXCEPT ![p].handlers = @ + 1]
                         /\ IF ok
                              THEN LET h == <<p, procs[p].handlers + 1>>
                                   IN /\ handlerCache' =
                                           Put(handlerCache, key,
                                               [handler |-> h, process |-> p])
                                      /\ req' = [req EXCEPT !.pc = "serve", !.code = 200,
                                                            !.proc = p, !.called = TRUE,
                                                            !.handler = h]
                              ELSE /\ handlerCache' = handlerCache
                                   /\ req' = [req EXCEPT !.pc = "serve", !.code = 500,
                                                         !.proc = p, !.called = TRUE]
  /\ UNCHANGED <<inputs, callers, cfg, cfgErr, integrations, ctxDone, wg, cfgMut, integrationsMut, im,
                 local, call, served, stopPc, stopSeen>>

\* Lines 473, 477: handler.ServeHTTP answers and the read lock is released.
RequestServe ==
  /\ req.pc = "serve"
  /\ integrationsMut' = [integrationsMut EXCEPT !.r = @ - 1]
  /\ served' = Put(served, integrationKey(req.name),
                   [code |-> req.code, handler |-> req.handler, proc |-> req.proc])
  /\ req' = IdleReq
  /\ UNCHANGED <<inputs, callers, cfg, cfgErr, integrations, ctxDone, wg, cfgMut, procs, im,
                 local, call, handlerCache, stopPc, stopSeen>>

\* ------------------------------------------------------------------------
\* Manager.Stop (lines 487-490).
\* ------------------------------------------------------------------------

\* An ApplyConfig call is between its first lock and its return.
CallInProgress == \E c \in Callers : local[c].pc /= "idle"

\* Line 488: m.cancel().
StopCancel ==
  /\ stopPc = "idle"
  /\ ctxDone' = TRUE
  /\ stopPc' = "wait"
  /\ stopSeen' = IF CallInProgress THEN Pids \ call.started ELSE Pids
  /\ UNCHANGED <<inputs, callers, cfg, cfgErr, integrations, wg, cfgMut, integrationsMut, procs, im,
                 local, call, handlerCache, req, served>>

\* Line 489: m.wg.Wait() returns once the counter is zero.
StopWait ==
  /\ stopPc = "wait"
  /\ wg = 0
  /\ stopPc' = "returned"
  /\ UNCHANGED <<inputs, callers, cfg, cfgErr, integrations, ctxDone, wg, cfgMut, integrationsMut, procs,
                 im, local, call, handlerCache, req, served, stopSeen>>

\* ------------------------------------------------------------------------
\* The specifications.
\* ------------------------------------------------------------------------

\* A step of an ApplyConfig call.
ApplyConfig ==
  \/ \E c \in Callers, new \in ManagerConfigs : ApplyConfigLock(c, new)
  \/ \E c \in Callers : ApplyConfigCheck(c)
  \/ \E c \in Callers, n \in Names : ApplyConfigEntry(c, n)
  \/ \E c \in Callers, ok \in BOOLEAN : ApplyConfigNew(c, ok)
  \/ \E c \in Callers, key \in Keys : ApplyConfigSweep(c, key)
  \/ \E c \in Callers, key \in Keys, valid \in BOOLEAN, accepted \in BOOLEAN :
       ApplyConfigRederive(c, key, valid, accepted)
  \/ \E c \in Callers : ApplyConfigCommit(c)
  \/ \E c \in Callers : ApplyConfigReturn(c)

\* A step of a process's goroutine.
Run ==
  \/ \E p \in Pids : RunStart(p)
  \/ \E p \in Pids, err \in RunOutcomes : RunReturn(p, err)
  \/ \E p \in Pids : instanceBackoffLock(p)
  \/ \E p \in Pids : instanceBackoffDone(p)

\* A step of a scrape request.
Request ==
  \/ \E n \in Names : RequestLock(n)
  \/ \E ok \in BOOLEAN : loadHandler(ok)
  \/ RequestServe

\* A step of Stop.
Stop ==
  \/ StopCancel
  \/ StopWait

\* The reconciler: callers of ApplyConfig with any configuration, and the
\* cancellation of Stop.
Next == ApplyConfig \/ StopCancel

Spec == Init /\ [][Next]_vars

\* Configurations submitted where the goroutines interleave: scraping on, no
\* worker, worker "a" alone with either of two Configs, and "a" with "b".
RunConfigs ==
  { k \in ManagerConfigs :
      /\ k.scrape
      /\ \A n \in DOMAIN k.ints : k.ints[n].enabled
      /\ "b" \in DOMAIN k.ints =>
            /\ k.ints["b"].scrape = "nil"
            /\ "a" \in DOMAIN k.ints /\ k.ints["a"].scrape = "nil" }

InitRun == inputs = RunConfigs /\ callers = {"c1"} /\ Fresh

\* The reconciler, the run loops of the processes it launches, and Stop.
NextRun == ApplyConfig \/ Run \/ Stop

SpecRun == InitRun /\ [][NextRun]_vars

\* Configurations of the one-worker specification: worker "a" or no worker.
LoopConfigs == { k \in RunConfigs : \A n \in DOMAIN k.ints : k.ints[n].scrape = "nil" /\ n = "a" }

InitLoop == inputs = LoopConfigs /\ callers = {"c1"} /\ Fresh

\* One worker, started, removed and started again, its run loops, and Stop.
SpecLoop == InitLoop /\ [][NextRun]_vars

InitAPI == inputs = RunConfigs /\ callers = {"c1"} /\ Fresh

\* The reconciler and the scrape requests.
NextAPI == ApplyConfig \/ Request

SpecAPI == InitAPI /\ [][NextAPI]_vars

InitShared == inputs = RunConfigs /\ callers = Callers /\ Fresh

\* Two goroutines that call ApplyConfig, and the scrape requests.
SpecShared == InitShared /\ [][NextAPI]_vars

InitAll == inputs = LoopConfigs /\ callers = Callers /\ Fresh

\* The steps of ApplyConfig past line 194: the caller holds both locks and
\* waits for nothing.  Here the validator and the instance manager accept
\* every config.
Reconcile ==
  \/ \E c \in Callers, n \in Names : ApplyConfigEntry(c, n)
  \/ \E c \in Callers, ok \in BOOLEAN : ApplyConfigNew(c, ok)
  \/ \E c \in Callers, key \in Keys : ApplyConfigSweep(c, key)
  \/ \E c \in Callers, key \in Keys : ApplyConfigRederive(c, key, TRUE, TRUE)
  \/ \E c \in Callers : ApplyConfigCommit(c)
  \/ \E c \in Callers : ApplyConfigReturn(c)

\* Line 194: the caller that holds m.cfgMut takes m.integrationsMut.
LockRegistry == \E c \in Callers : ApplyConfigCheck(c)

\* A step of a run loop whose worker returns an error or, once canceled,
\* context.Canceled.
RunLoop ==
  \/ \E p \in Pids : RunStart(p)
  \/ \E p \in Pids, err \in {"error", "canceled"} : RunReturn(p, err)
  \/ \E p \in Pids : instanceBackoffLock(p)
  \/ \E p \in Pids : instanceBackoffDone(p)

\* The request has its read lock: loadHandler, with MetricsHandler
\* succeeding, and ServeHTTP.
Serve == loadHandler(TRUE) \/ RequestServe

\* Every kind of goroutine: two callers of ApplyConfig, the run loops, the
\* scrape requests for worker "a", and Stop.
NextAll ==
  \/ \E c \in Callers, new \in ManagerConfigs : ApplyConfigLock(c, new)
  \/ LockRegistry
  \/ Reconcile
  \/ RunLoop
  \/ RequestLock("a")
  \/ Serve
  \/ Stop

\* What the scheduling guarantees.  A goroutine that waits for nothing takes
\* its next step: the caller that holds both locks, the request that holds
\* its read lock (handlers return), the backoff sleep (it ends).  A goroutine
\* that waits for a sync.RWMutex gets it if the lock keeps becoming free: a
\* blocked Lock keeps new readers out and an Unlock hands the lock to the
\* readers that wait.  Nothing makes callers call, requests arrive, Stop be
\* called or a worker's Run return.
Fairness ==
  /\ WF_vars(Reconcile)
  /\ SF_vars(LockRegistry)
  /\ WF_vars(Serve)
  /\ \A p \in 1..MaxProcs :
       /\ SF_vars(p \in Pids /\ instanceBackoffLock(p))
       /\ WF_vars(p \in Pids /\ instanceBackoffDone(p))

SpecAll == InitAll /\ [][NextAll]_vars /\ Fairness

\* ------------------------------------------------------------------------
\* Properties of ApplyConfig, stated where the call is about to return.
\* ------------------------------------------------------------------------

\* The caller has its result and is about to release the locks and return.
Returning == \E c \in Callers : local[c].pc = "return"

\* An ApplyConfig call is under way.
InCall == \E c \in Callers : local[c].pc /= "idle"

\* The keys of the entries of a configuration.
KeysOf(k) == { integrationKey(n) : n \in DOMAIN k.ints }

\* The keys of the enabled entries of a configuration.
EnabledKeysOf(k) ==
  { integrationKey(n) : n \in { m \in DOMAIN k.ints : k.ints[m].enabled } }

\* The Config a configuration has for a key.
ConfigOf(k, key) == k.ints[CHOOSE n \in DOMAIN k.ints : integrationKey(n) = key]

\* C1: when ApplyConfig(C2) returns, for C2 different from the stored
\* configuration, on a Manager that is not stopped and with every
\* NewIntegration succeeding, the registry's keys are exactly the keys of the
\* entries of C2 that are enabled, and DeleteConfig was called for every key
\* registered before the call that has no entry in C2.
C1_RegistryIsEnabledKeys ==
  ( /\ Returning
    /\ call.arg /= call.preCfg
    /\ ~call.afterStop /\ call.result /= "stopped"
    /\ call.unbuilt = {} )
  => /\ DOMAIN integrations = EnabledKeysOf(call.arg)
     /\ (DOMAIN call.pre) \ KeysOf(call.arg) \subseteq call.deleted

\* A registered worker whose Config in the configuration being applied equals
\* the Config its process was built from.
Kept(key) ==
  /\ key \in DOMAIN call.pre
  /\ key \in KeysOf(call.arg)
  /\ ConfigOf(call.arg, key) = call.pre[key].cfg

\* C2: throughout an ApplyConfig call, every worker registered before the call
\* whose Config in the new configuration equals the Config of its process
\* stays registered under its key with the very same process, and the call
\* does not cancel that process.
C2_UnchangedWorkerUntouched ==
  \A key \in Keys :
    (InCall /\ Kept(key))
    => /\ key \in DOMAIN integrations
       /\ integrations[key] = call.pre[key]
       /\ call.pre[key].proc \notin call.stopped
       /\ ~procs[call.pre[key].proc].stopped

\* C2's case: a call that starts a process returns with another worker kept.
C2_Witness ==
  /\ Returning
  /\ call.started /= {}
  /\ \E key \in Keys : Kept(key)

\* The processes of a key whose cancellation has not been signaled.
Live(key) == { p \in Pids : procs[p].key = key /\ ~Canceled(p) }

\* C3: at most one process of a key has its cancellation not signaled, and it
\* is the registered one; when ApplyConfig is about to build a worker, the old
\* process of its key is canceled and the key is not registered; the processes
\* a call has started are registered under their keys.
C3_StopBeforeReplace ==
  /\ \A key \in Keys :
       /\ Cardinality(Live(key)) <= 1
       /\ \A p \in Live(key) :
            key \in DOMAIN integrations /\ integrations[key].proc = p
  /\ \A c \in Callers :
       local[c].pc = "new"
       => /\ integrationKey(local[c].name) \notin DOMAIN integrations
          /\ Live(integrationKey(local[c].name)) = {}
  /\ \A p \in call.started :
       /\ procs[p].key \in DOMAIN integrations
       /\ integrations[procs[p].key].proc = p

\* C3's case: a call returns having canceled a process and started another
\* under the same key.
C3_Witness ==
  /\ Returning
  /\ \E p \in call.stopped, q \in call.started : procs[p].key = procs[q].key

\* C4: an ApplyConfig call with the configuration that is stored changes
\* nothing up to its return: the registry is as before the call, no process is
\* canceled or started, and neither ApplyConfig nor DeleteConfig of the
\* instance manager is called (no config is validated either).
C4_SameConfigIsNoOp ==
  (InCall /\ call.arg = call.preCfg)
  => /\ integrations = call.pre
     /\ cfg = call.preCfg
     /\ call.stopped = {} /\ call.started = {}
     /\ call.deleted = {} /\ call.applied = {} /\ call.invalid = {}

\* C4's case: the call that stored the configuration returned an error (it
\* left a worker of the configuration unbuilt), and a call with the same
\* configuration returns.
C4_Witness ==
  /\ Returning
  /\ call.arg = call.preCfg
  /\ cfgErr
  /\ KeysOf(cfg) /= DOMAIN integrations

\* C5: an ApplyConfig call made after Stop canceled m.ctx returns the
\* "Manager already stopped" error, whatever its configuration.
C5_RejectedAfterStop ==
  (Returning /\ call.afterStop) => call.result = "stopped"

\* ------------------------------------------------------------------------
\* Properties of Stop and of the run loop.
\* ------------------------------------------------------------------------

\* C6: when Stop has returned, the run loop of every process launched by an
\* ApplyConfig call that completed before Stop was called has terminated.
C6_StopWaitsForRunLoops ==
  stopPc = "returned" => \A p \in stopSeen : procs[p].pc = "done"

\* C7: in a run loop whose worker has returned N errors other than
\* context.Canceled (fails), Run has been invoked N+1 times while or after the
\* (N+1)-th invocation runs and N times while the loop waits, and the backoff
\* callback N times; once the worker has returned context.Canceled the loop is
\* over, with N+1 invocations and N backoffs.
C7_RunLoopCounts ==
  \A p \in Pids :
    /\ procs[p].pc = "launched" => procs[p].runs = 0 /\ procs[p].backoffs = 0
    /\ procs[p].pc = "running"
         => procs[p].runs = procs[p].fails + 1 /\ procs[p].backoffs = procs[p].fails
    /\ procs[p].pc \in {"backoff", "sleep"}
         => procs[p].runs = procs[p].fails /\ procs[p].backoffs = procs[p].fails
    /\ procs[p].last = "canceled"
         => /\ procs[p].pc = "done"
            /\ procs[p].runs = procs[p].fails + 1
            /\ procs[p].backoffs = procs[p].fails

\* C7's case: a loop is over after as many errors as the bound allows and then
\* context.Canceled.
C7_Witness ==
  \E p \in Pids :
    procs[p].last = "canceled" /\ procs[p].pc = "done" /\ procs[p].fails = MaxFails

\* ------------------------------------------------------------------------
\* Properties of the scrape route, stated where the response is served.
\* ------------------------------------------------------------------------

\* The key of the request being served.
ReqKey == integrationKey(req.name)

\* The last request for the key being served got a handler.
ServedBefore == ReqKey \in DOMAIN served /\ served[ReqKey].code = 200

\* C8: a request that finds a registered process is served a handler or an
\* internal error; a handler served was made by MetricsHandler of the process
\* registered now; if the last request for the key was served a handler of
\* that same process, this one is served the identical handler and does not
\* call MetricsHandler; if it was served one of another process, this one
\* calls MetricsHandler and is served another handler.
C8_HandlerOfRegisteredProcess ==
  (req.pc = "serve" /\ ReqKey \in DOMAIN integrations)
  => LET p == integrations[ReqKey].proc
     IN /\ req.code \in {200, 500}
        /\ req.proc = p
        /\ req.code = 200 =>
             /\ req.handler[1] = p
             /\ (ServedBefore /\ served[ReqKey].proc = p)
                  => req.handler = served[ReqKey].handler /\ ~req.called
             /\ (ServedBefore /\ served[ReqKey].proc /= p)
                  => req.handler /= served[ReqKey].handler /\ req.called

\* C8's case: the process of the key was replaced since the last request for
\* it got a handler, and this request is served a handler.
C8_Witness ==
  /\ req.pc = "serve" /\ req.code = 200
  /\ ServedBefore
  /\ served[ReqKey].proc /= req.proc

\* C9: a request for a key that is not registered is answered 404 and leaves
\* no cache entry for the key; a request answered 500 called MetricsHandler on
\* the registered process and leaves no cache entry for that process; the
\* request that follows a 500 for the same process calls MetricsHandler again.
C9_NotFoundAndInternalError ==
  req.pc = "serve"
  => /\ ReqKey \notin DOMAIN integrations
          => req.code = 404 /\ ReqKey \notin DOMAIN handlerCache
     /\ req.code = 500
          => /\ ReqKey \in DOMAIN integrations
             /\ req.called
             /\ req.proc = integrations[ReqKey].proc
             /\ ~( /\ ReqKey \in DOMAIN handlerCache
                   /\ handlerCache[ReqKey].process = req.proc )
     /\ ( /\ ReqKey \in DOMAIN integrations
          /\ ReqKey \in DOMAIN served
          /\ served[ReqKey].code = 500
          /\ served[ReqKey].proc = integrations[ReqKey].proc )
          => req.called

\* C9's case: a request for a key that was served a handler before finds the
\* key unregistered, and the last request for some key was answered 500.
C9_Witness ==
  /\ req.pc = "serve" /\ req.code = 404
  /\ ServedBefore
  /\ \E key \in DOMAIN served : served[key].code = 500

\* ------------------------------------------------------------------------
\* The re-apply loop of ApplyConfig.
\* ------------------------------------------------------------------------

\* The scrape decision for a registered worker: its own override, else the
\* flag of the configuration being applied.
Decision(key) ==
  CASE integrations[key].cfg.scrape = "true"  -> TRUE
    [] integrations[key].cfg.scrape = "false" -> FALSE
    [] OTHER -> call.arg.scrape

\* C10: when an ApplyConfig call that ran its passes returns, for every
\* registered worker: if the decision is false the process is not canceled,
\* DeleteConfig was called for its key and ApplyConfig of the instance
\* manager was not; if the decision is true and the validator accepted its
\* config, ApplyConfig of the instance manager was called for it.
C10_ScrapeDecision ==
  (Returning /\ ~call.short /\ call.result /= "stopped")
  => \A key \in DOMAIN integrations :
       /\ ~Decision(key)
            => /\ ~procs[integrations[key].proc].stopped
               /\ key \in call.deleted
               /\ key \notin call.applied
       /\ (Decision(key) /\ key \notin call.invalid) => key \in call.applied

\* C10's case: the call turns the global flag off for a worker that was
\* registered and is left untouched, one worker has the override on and one
\* has it off.
C10_Witness ==
  /\ Returning /\ ~call.short /\ call.result /= "stopped"
  /\ call.preCfg.scrape /\ ~call.arg.scrape
  /\ \E key \in DOMAIN integrations :
       /\ Kept(key)
       /\ integrations[key].cfg.scrape = "nil"
       /\ key \in call.deleted
  /\ \E key \in DOMAIN integrations :
       integrations[key].cfg.scrape = "true" /\ key \in call.applied

\* ------------------------------------------------------------------------
\* Failures inside ApplyConfig.
\* ------------------------------------------------------------------------

\* C11: when an ApplyConfig call in which NewIntegration failed for a key
\* returns: the key is not registered, the process registered under it before
\* the call is canceled, DeleteConfig was called for the key and the instance
\* manager holds no config for it, the call returns the error, and every other
\* entry of the configuration is registered with its Config: with the very
\* process it had when its Config is unchanged, else with a process the call
\* started after canceling the one registered before.
C11_ConstructionFailure ==
  Returning
  => \A key \in call.unbuilt :
       /\ key \notin DOMAIN integrations
       /\ key \in DOMAIN call.pre => procs[call.pre[key].proc].stopped
       /\ key \in call.deleted
       /\ key \notin im
       /\ call.result = "failed"
       /\ \A other \in KeysOf(call.arg) \ call.unbuilt :
            /\ other \in DOMAIN integrations
            /\ integrations[other].cfg = ConfigOf(call.arg, other)
            /\ IF Kept(other)
                 THEN integrations[other] = call.pre[other]
                 ELSE /\ integrations[other].proc \in call.started
                      /\ other \in DOMAIN call.pre
                           => call.pre[other].proc \in call.stopped

\* C11's case: the construction of the successor of a worker that was
\* registered, with a config held by the instance manager, fails.
C11_Witness ==
  /\ Returning
  /\ \E key \in call.unbuilt : key \in DOMAIN call.pre /\ key \in call.preIm

\* C14: when an ApplyConfig call in which the generated config of a
\* registered worker was refused by the validator, or by ApplyConfig of the
\* instance manager, returns: the worker is registered and its process not
\* canceled, the call returns the error, every registered worker was visited
\* by the re-apply loop, and the instance manager holds no config for the
\* worker's key.
C14_ScrapeFailureKeepsWorker ==
  Returning
  => \A key \in call.invalid \cup call.rejected :
       /\ key \in DOMAIN integrations
       /\ ~procs[integrations[key].proc].stopped
       /\ call.result = "failed"
       /\ DOMAIN integrations \subseteq call.invalid \cup call.applied \cup call.deleted
       /\ key \notin im

\* The keys for which a step of the call in progress failed.
FailedKeys == call.unbuilt \cup call.invalid \cup call.rejected

\* C15: an ApplyConfig call with a configuration that differs from the stored
\* one is refused only when m.ctx is canceled; when it is not refused and
\* returns, all its passes are complete whatever failed on the way (every
\* entry is registered with its Config or its construction failed, no other
\* key is registered and DeleteConfig was called for the keys removed, and the
\* re-apply loop visited every registered worker), the configuration is the
\* stored one, and the call returns the error exactly when a construction, a
\* validation or an ApplyConfig of the instance manager failed.
C15_AllPassesThenStore ==
  (Returning /\ call.arg /= call.preCfg)
  => /\ call.result = "stopped" => ctxDone
     /\ call.result /= "stopped"
          => /\ cfg = call.arg
             /\ DOMAIN integrations = KeysOf(call.arg) \ call.unbuilt
             /\ \A key \in DOMAIN integrations :
                  integrations[key].cfg = ConfigOf(call.arg, key)
             /\ (DOMAIN call.pre) \ KeysOf(call.arg) \subseteq call.deleted
             /\ DOMAIN integrations
                  \subseteq call.invalid \cup call.applied \cup call.deleted
             /\ call.result \in {"nil", "failed"}
             /\ call.result = "failed" <=> FailedKeys /= {}

\* C15's case: a call returns in which the construction of one worker failed
\* and the generated config of another was refused by the validator.
C15_Witness ==
  /\ Returning /\ call.arg /= call.preCfg
  /\ call.unbuilt /= {} /\ call.invalid /= {}
  /\ call.result = "failed" /\ cfg = call.arg

\* C17: an ApplyConfig call made when m.ctx is canceled changes nothing up to
\* its return: the registry, the stored configuration and the configs the
\* instance manager holds are as before the call, no process is canceled or
\* created (no run loop launched), and neither ApplyConfig nor DeleteConfig
\* of the instance manager is called, nor the validator.
C17_NoMutationAfterStop ==
  (InCall /\ call.afterStop)
  => /\ integrations = call.pre
     /\ cfg = call.preCfg
     /\ im = call.preIm
     /\ call.stopped = {} /\ call.started = {}
     /\ call.applied = {} /\ call.deleted = {} /\ call.invalid = {}
     /\ call.unbuilt = {}

\* C17's case: after Stop, a call returns refused whose configuration, had it
\* been applied, would have removed a registered worker with a config held by
\* the instance manager, and started another.
C17_Witness ==
  /\ Returning /\ call.afterStop /\ call.result = "stopped"
  /\ \E key \in DOMAIN integrations : key \notin KeysOf(call.arg) /\ key \in im
  /\ \E key \in KeysOf(call.arg) : key \notin DOMAIN integrations

\* C20: whenever no ApplyConfig call is in progress, and when a call is about
\* to return, every key the instance manager holds a config for is
\* registered.
C20_NoOrphanInstanceConfig ==
  (~InCall \/ Returning) => im \subseteq DOMAIN integrations

\* C20's case: a call returns that removed a worker whose config the instance
\* manager held, by the sweep or by a failed construction of its successor,
\* while the instance manager holds the config of another worker.
C20_Witness ==
  /\ Returning
  /\ \E key \in call.preIm : key \notin DOMAIN integrations
  /\ im /= {}

\* ------------------------------------------------------------------------
\* Panics, cancellation and replacement in the run loops.
\* ------------------------------------------------------------------------

\* The processes whose goroutine is between p.wg.Add(1) and p.wg.Done().
InLoop == { p \in Pids : procs[p].pc \in {"running", "backoff", "sleep"} }

\* The invocation of p.i.Run of process p ends with a panic in this step.
Panics(p) == procs[p].pc = "running" /\ procs'[p].last = "panic" /\ procs'[p] /= procs[p]

\* C12: a run loop whose worker panicked is over: Run was not invoked again
\* and the backoff callback not called again; the wait group counts exactly
\* the loops between their Add and their Done, so a panicked loop is not
\* counted; and the step in which a worker panics changes only that process
\* and the wait group: the other processes, the registry, m.ctx and the locks
\* are as before.
C12_PanicContained ==
  /\ [](\A p \in Pids :
          procs[p].last = "panic"
          => /\ procs[p].pc = "done"
             /\ procs[p].runs = procs[p].fails + 1
             /\ procs[p].backoffs = procs[p].fails)
  /\ [](wg = Cardinality(InLoop))
  /\ [][\A p \in Pids :
          Panics(p)
          => /\ wg' = wg - 1
             /\ \A q \in Pids \ {p} : procs'[q] = procs[q]
             /\ UNCHANGED <<integrations, ctxDone, cfg, cfgMut, integrationsMut, im>>]_vars

\* C12's case: a worker has panicked after an error and a restart, while the
\* loop of another process sleeps in the backoff callback.
C12_Witness ==
  \E p \in Pids, q \in Pids :
    /\ procs[p].last = "panic" /\ procs[p].fails > 0
    /\ procs[q].pc = "sleep"
    /\ wg = 1

\* C13: once p.ctx is canceled, the invocation of p.i.Run in progress is the
\* last: whatever it returns, the loop is over when it has returned.
C13_CanceledLoopEnds ==
  [][\A p \in Pids :
       (Canceled(p) /\ procs[p].pc = "running" /\ procs'[p].pc /= "running")
       => procs'[p].pc = "done"]_vars

\* C18: of the processes created for one key, at most one has its run loop
\* between its first invocation of p.i.Run and its end: a successor's loop
\* does not run the worker while the loop of the process it replaced goes on.
C18_OneRunLoopPerKey ==
  \A key \in Keys :
    Cardinality({ p \in InLoop : procs[p].key = key }) <= 1

\* ------------------------------------------------------------------------
\* The locks: atomicity and progress.
\* ------------------------------------------------------------------------

\* The callers inside ApplyConfig, from m.cfgMut.Lock() to the return.
Calling == { c \in Callers : local[c].pc /= "idle" }

\* The callers that hold m.integrationsMut: past line 194.
Reconciling == { c \in Callers : local[c].pc \in {"run", "new", "return"} }

\* C16: at most one caller is inside ApplyConfig; while a scrape request is
\* between its RLock and its RUnlock no caller is past line 194, so the
\* registry the request reads is the one the last completed call left (the
\* one a call waiting at line 194 found); a request answered not-found is for
\* a key that this registry does not hold, and no request is in flight while
\* the old process of a key is removed and its successor not yet registered.
C16_PassesAreAtomic ==
  /\ Cardinality(Calling) <= 1
  /\ req.pc /= "idle"
       => /\ Reconciling = {}
          /\ Calling /= {} => integrations = call.pre
          /\ (req.pc = "serve" /\ req.code = 404) => ReqKey \notin DOMAIN integrations
          /\ (req.pc = "serve" /\ req.code /= 404)
               => /\ ReqKey \in DOMAIN integrations
                  /\ req.proc = integrations[ReqKey].proc
  /\ \A c \in Callers : local[c].pc = "new" => req.pc = "idle"

\* C16's case: a request for a registered worker is served while a call that
\* changes that worker's Config waits for the registry lock; the other caller
\* is outside ApplyConfig.
C16_Witness ==
  /\ req.pc = "serve" /\ req.code = 200
  /\ \E c \in Callers :
       /\ local[c].pc = "lockInts"
       /\ ReqKey \in KeysOf(local[c].arg)
       /\ ConfigOf(local[c].arg, ReqKey) /= integrations[ReqKey].cfg
  /\ Cardinality(Calling) = 1

\* Every lock that is held is held by a goroutine between its lock and its
\* unlock: m.cfgMut by the caller inside ApplyConfig and by the run loops
\* asleep in instanceBackoff, m.integrationsMut by the caller past line 194 and
\* by the request in flight.
LocksHaveHolders ==
  /\ cfgMut.w <=> Calling /= {}
  /\ cfgMut.r = Cardinality({ p \in Pids : procs[p].pc = "sleep" })
  /\ integrationsMut.w <=> Reconciling /= {}
  /\ integrationsMut.r = IF req.pc = "idle" THEN 0 ELSE 1

====
